---- MODULE Spec2Model ----
(***************************************************************************)
(* Model of bulk-mint/src/its_aptos_thing.rs: the collection bootstrap     *)
(* (create_test_collection) and the two SignedTransactionBuilder           *)
(* implementations (NftMintSignedTransactionBuilder and                    *)
(* NftBurnSignedTransactionBuilder) with their build and success_output.   *)
(*                                                                         *)
(* Text is modelled as a sequence of atoms (short strings); the tab        *)
(* written by format! is the atom TAB, so a line can be split again into   *)
(* its fields.  A panic (a failed assert!, an unwrap of None) is the       *)
(* value PANIC where the operation would have returned.                    *)
(***************************************************************************)
EXTENDS Naturals, Sequences, FiniteSets, TLC

\* ---------------------------------------------------------------- bounds
NumAddr == 2
MaxEvents == 2
MaxSeq == 2

Addresses == 1..NumAddr

\* ------------------------------------------------------------ plain text
TAB == "\t"

\* Option<T>
None == [some |-> FALSE]
Some(v) == [some |-> TRUE, val |-> v]

HexDigits == <<"1", "2", "3", "4", "5", "6", "7", "8", "9", "a", "b", "c", "d", "e", "f">>

\* AccountAddress::to_standard_string: "0x" and the short hex form.
ToStandardString(a) == <<"0x", HexDigits[a]>>

\* AccountAddress formatted with {} : the zero-padded hex form, no prefix.
Display(a) == <<"00", HexDigits[a]>>

\* format!("{}\t{}\t{}\t{}", f1, f2, f3, f4)
Format4(f1, f2, f3, f4) == f1 \o <<TAB>> \o f2 \o <<TAB>> \o f3 \o <<TAB>> \o f4

\* ---------------------------------------------------------------- events
MintTag == <<"0x", "4", "::collection::Mint">>
BurnTag == <<"0x", "4", "::collection::Burn">>
OtherTag == <<"0x", "1", "::transaction_fee::FeeStatement">>

ErrNotFound == <<"EventNotFound">>
ErrAmbiguous == <<"AmbiguousEvent">>
ErrDecode == <<"DecodeError">>

\* search_single_event_data: exactly one event of the type, decoded into a
\* structure of `arity` fields; otherwise the extraction error.
search_single_event_data(events, tag, arity) ==
    LET matching == SelectSeq(events, LAMBDA e : e.type = tag)
    IN  IF Len(matching) = 0 THEN [ok |-> FALSE, err |-> ErrNotFound]
        ELSE IF Len(matching) > 1 THEN [ok |-> FALSE, err |-> ErrAmbiguous]
        ELSE IF Len(matching[1].data) # arity THEN [ok |-> FALSE, err |-> ErrDecode]
        ELSE [ok |-> TRUE, val |-> matching[1].data]

get_mint_token_addr(events) ==
    LET r == search_single_event_data(events, MintTag, 1)
    IN  IF r.ok THEN [ok |-> TRUE, val |-> r.val[1]] ELSE r

get_burn_token_addr(events) ==
    LET r == search_single_event_data(events, BurnTag, 1)
    IN  IF r.ok THEN [ok |-> TRUE, val |-> r.val[1]] ELSE r

\* Transaction::try_as_signed_user_txn: Some only for a user transaction.
try_as_signed_user_txn(transaction) ==
    IF transaction.kind = "UserTransaction" THEN Some(transaction) ELSE None

\* ---------------------------------------------------------- transactions
BcsAddress(a) == [type |-> "address", bytes |-> a]
BcsBool(b) == [type |-> "bool", bytes |-> IF b THEN 1 ELSE 0]
BcsValue(t, v) == [type |-> t, bytes |-> v]

\* get_module_id
get_module_id(contract_address, contract_module_name) ==
    [address |-> contract_address, name |-> contract_module_name]

\* EntryFunction::new(module, function, ty_args, args)
EntryFunction(module, function, ty_args, args) ==
    [module |-> module, function |-> function, ty_args |-> ty_args, args |-> args]

\* LocalAccount::sign_with_transaction_builder: the sender is the account,
\* the sequence number is the account's current one (which the call advances).
\* The fields the TransactionFactory adds (gas, expiration, chain id) and the
\* signature bytes are left out.
sign_with_transaction_builder(address, sequence_number, payload) ==
    [kind |-> "UserTransaction", sender |-> address,
     sequence_number |-> sequence_number,
     secondary_signer_addresses |-> <<>>, payload |-> payload]

\* LocalAccount::sign_multi_agent_with_transaction_builder: as above, with
\* the secondary signers' addresses; only the sender's sequence number is used.
sign_multi_agent_with_transaction_builder(address, sequence_number, secondary_signers, payload) ==
    [kind |-> "UserTransaction", sender |-> address,
     sequence_number |-> sequence_number,
     secondary_signer_addresses |-> secondary_signers, payload |-> payload]

\* --------------------------------------------------------- configuration
ModuleName == "only_on_aptos"
MintEntryFun == "mint_to_recipient"
BurnEntryFun == "burn_with_admin_worker"

\* NftMintSignedTransactionBuilder::new
NftMintSignedTransactionBuilder(contract_address, contract_module_name, mint_entry_fun, collection_owner_address) ==
    [contract_module |-> get_module_id(contract_address, contract_module_name),
     mint_entry_fun |-> mint_entry_fun,
     collection_owner_address |-> collection_owner_address]

\* NftBurnSignedTransactionBuilder::new
NftBurnSignedTransactionBuilder(contract_address, contract_module_name, burn_entry_fun, admin_account) ==
    [admin_account |-> admin_account,
     contract_module |-> get_module_id(contract_address, contract_module_name),
     burn_entry_fun |-> burn_entry_fun]

\* ------------------------------------------------------------ the builders
\* NftMintSignedTransactionBuilder::build; data is <<recipient>>.
MintBuild(self, data, account, sequence_number) ==
    sign_with_transaction_builder(account, sequence_number,
        EntryFunction(self.contract_module, self.mint_entry_fun, <<>>,
            <<BcsAddress(self.collection_owner_address), BcsAddress(data[1])>>))

\* build of the burn builder encoding the token before the collection.
BurnBuild_TokenFirst(self, data, account, sequence_number) ==
    sign_multi_agent_with_transaction_builder(account, sequence_number,
        <<self.admin_account>>,
        EntryFunction(self.contract_module, self.burn_entry_fun, <<>>,
            <<BcsAddress(data[1]), BcsAddress(data[2])>>))

\* NftBurnSignedTransactionBuilder::build; data is <<token, collection>>.
BurnBuild(self, data, account, sequence_number) ==
    sign_multi_agent_with_transaction_builder(account, sequence_number,
        <<self.admin_account>>,
        EntryFunction(self.contract_module, self.burn_entry_fun, <<>>,
            <<BcsAddress(data[2]), BcsAddress(data[1])>>))

Returned(line) == [panic |-> FALSE, line |-> line]
Panicked == [panic |-> TRUE]

\* success_output of the mint builder reporting an absent outcome as a success.
MintSuccessOutput_AbsentAsSuccess(self, data, txn_out) ==
    LET st == IF txn_out.some
              THEN LET r == get_mint_token_addr(txn_out.val.events)
                   IN  IF r.ok
                       THEN [status |-> <<"success">>, token |-> ToStandardString(r.val)]
                       ELSE [status |-> r.err, token |-> <<>>]
              ELSE [status |-> <<"success">>, token |-> <<>>]
    IN  Returned(Format4(st.token,
                         ToStandardString(self.collection_owner_address),
                         Display(data[1]),
                         st.status))

\* success_output of the mint builder treating a failed outcome as an absent one.
MintSuccessOutput_FailedAsMissing(self, data, txn_out) ==
    LET st == IF txn_out.some /\ txn_out.val.success
              THEN LET r == get_mint_token_addr(txn_out.val.events)
                   IN  IF r.ok
                       THEN [status |-> <<"success">>, token |-> ToStandardString(r.val)]
                       ELSE [status |-> r.err, token |-> <<>>]
              ELSE [status |-> <<"missing">>, token |-> <<>>]
    IN  Returned(Format4(st.token,
                         ToStandardString(self.collection_owner_address),
                         Display(data[1]),
                         st.status))

\* NftMintSignedTransactionBuilder::success_output; data is <<recipient>>.
MintSuccessOutput(self, data, txn_out) ==
    LET st == IF txn_out.some
              THEN LET r == get_mint_token_addr(txn_out.val.events)
                   IN  IF r.ok
                       THEN [status |-> <<"success">>, token |-> ToStandardString(r.val)]
                       ELSE [status |-> r.err, token |-> <<>>]
              ELSE [status |-> <<"missing">>, token |-> <<>>]
    IN  Returned(Format4(st.token,
                         ToStandardString(self.collection_owner_address),
                         Display(data[1]),
                         st.status))

\* success_output of the burn builder unwrapping the sender before it looks
\* for the event.
BurnSuccessOutput_EagerUnwrap(self, data, txn_out) ==
    LET st == IF txn_out.some
              THEN LET r == get_burn_token_addr(txn_out.val.events)
                       user == try_as_signed_user_txn(txn_out.val.transaction)
                   IN  IF ~user.some
                       THEN [panic |-> TRUE]
                       ELSE IF r.ok
                       THEN [panic |-> FALSE, status |-> <<"success">>,
                             refund_addr |-> ToStandardString(user.val.sender)]
                       ELSE [panic |-> FALSE, status |-> r.err, refund_addr |-> <<>>]
              ELSE [panic |-> FALSE, status |-> <<"missing">>, refund_addr |-> <<>>]
    IN  IF st.panic
        THEN Panicked
        ELSE Returned(Format4(st.refund_addr,
                              ToStandardString(data[1]),
                              ToStandardString(data[2]),
                              st.status))

\* NftBurnSignedTransactionBuilder::success_output; data is <<token, collection>>.
\* The unwrap of try_as_signed_user_txn panics on None.
BurnSuccessOutput(self, data, txn_out) ==
    LET st == IF txn_out.some
              THEN LET r == get_burn_token_addr(txn_out.val.events)
                       user == try_as_signed_user_txn(txn_out.val.transaction)
                   IN  IF r.ok
                       THEN IF user.some
                            THEN [panic |-> FALSE, status |-> <<"success">>,
                                  refund_addr |-> ToStandardString(user.val.sender)]
                            ELSE [panic |-> TRUE]
                       ELSE [panic |-> FALSE, status |-> r.err, refund_addr |-> <<>>]
              ELSE [panic |-> FALSE, status |-> <<"missing">>, refund_addr |-> <<>>]
    IN  IF st.panic
        THEN Panicked
        ELSE Returned(Format4(st.refund_addr,
                              ToStandardString(data[1]),
                              ToStandardString(data[2]),
                              st.status))

\* ------------------------------------------------------------------ state
VARIABLES
    mint_builder,   \* the NftMintSignedTransactionBuilder instance
    burn_builder,   \* the NftBurnSignedTransactionBuilder instance
    seq,            \* sequence number held by each LocalAccount
    built,          \* the most recent build call and the transaction it returned
    call,           \* arguments of the success_output call being made
    ret,            \* what that success_output call returned
    pc,             \* create_test_collection: position
    bs_args,        \* create_test_collection: its arguments
    admin_seq,      \* create_test_collection: sequence number of admin_account
    submitted,      \* transactions handed to client.submit_and_wait_bcs, in order
    outputs,        \* what client.submit_and_wait_bcs returned, in order
    collection_owner_address,  \* create_test_collection: the local variable
    result          \* what create_test_collection returned

vars == <<mint_builder, burn_builder, seq, built, call, ret,
          pc, bs_args, admin_seq, submitted, outputs, collection_owner_address, result>>

builder_vars == <<mint_builder, burn_builder, seq, built, call, ret>>
bootstrap_vars == <<pc, bs_args, admin_seq, submitted, outputs, collection_owner_address, result>>

ContractAddress == 1

SeqsUpTo(S, n) == UNION {[1..k -> S] : k \in 0..n}

\* Work items: a mint target is <<recipient>>, a burn target <<token, collection>>.
MintTargets == {<<a>> : a \in Addresses}
BurnTargets == {<<t, c>> : t \in Addresses, c \in Addresses}

\* Events a mint or burn transaction can carry; data <<>> does not decode.
OutputEvents ==
    {[type |-> t, data |-> <<a>>] : t \in {MintTag, BurnTag}, a \in Addresses}
    \cup {[type |-> t, data |-> <<>>] : t \in {MintTag, BurnTag}}
    \cup {[type |-> OtherTag, data |-> <<>>]}

\* Transaction: the user transaction of a sender, or one of another kind.
OnChainTransactions(user_txns) == user_txns \cup {[kind |-> "BlockMetadata"]}

\* Option<TransactionOnChainData>
TxnOuts(user_txns) ==
    {None} \cup
    {Some([success |-> s, events |-> ev, transaction |-> t]) :
        s \in BOOLEAN, ev \in SeqsUpTo(OutputEvents, MaxEvents),
        t \in OnChainTransactions(user_txns)}

MintBuilders ==
    {NftMintSignedTransactionBuilder(ContractAddress, ModuleName, MintEntryFun, c) :
        c \in Addresses}
BurnBuilders ==
    {NftBurnSignedTransactionBuilder(ContractAddress, ModuleName, BurnEntryFun, a) :
        a \in Addresses}

NoCall == [builder |-> "none"]
NotReturned == [returned |-> FALSE]

BootstrapIdle ==
    /\ pc = "idle"
    /\ bs_args = [contract_address |-> ContractAddress, contract_module_name |-> ModuleName,
                  admin_account |-> ContractAddress]
    /\ admin_seq = 0
    /\ submitted = <<>>
    /\ outputs = <<>>
    /\ collection_owner_address = None
    /\ result = None

\* ------------------------------------------------- success_output, called
InitOutput ==
    /\ mint_builder \in MintBuilders
    /\ burn_builder \in BurnBuilders
    /\ seq = [a \in Addresses |-> 0]
    /\ built = None
    /\ \/ \E data \in MintTargets :
            \E txn_out \in TxnOuts({MintBuild(mint_builder, data, a, 0) : a \in Addresses}) :
                call = [builder |-> "mint", data |-> data, txn_out |-> txn_out]
       \/ \E data \in BurnTargets :
            \E txn_out \in TxnOuts({BurnBuild(burn_builder, data, a, 0) : a \in Addresses}) :
                call = [builder |-> "burn", data |-> data, txn_out |-> txn_out]
    /\ ret = NotReturned
    /\ BootstrapIdle

MintSuccessOutputCall ==
    /\ call.builder = "mint"
    /\ ~ret.returned
    /\ ret' = [returned |-> TRUE, value |-> MintSuccessOutput(mint_builder, call.data, call.txn_out)]
    /\ UNCHANGED <<mint_builder, burn_builder, seq, built, call>>
    /\ UNCHANGED bootstrap_vars

BurnSuccessOutputCall ==
    /\ call.builder = "burn"
    /\ ~ret.returned
    /\ ret' = [returned |-> TRUE, value |-> BurnSuccessOutput(burn_builder, call.data, call.txn_out)]
    /\ UNCHANGED <<mint_builder, burn_builder, seq, built, call>>
    /\ UNCHANGED bootstrap_vars

NextOutput == MintSuccessOutputCall \/ BurnSuccessOutputCall

SpecOutput == InitOutput /\ [][NextOutput]_vars

\* ------------------------------------------------------- build, called
\* The success_output call made between the builds: of either builder, for
\* one work item whose outcome never arrived.
BuildSpecCalls ==
    {[builder |-> "mint", data |-> <<ContractAddress>>, txn_out |-> None],
     [builder |-> "burn", data |-> <<ContractAddress, ContractAddress>>, txn_out |-> None]}

InitBuild ==
    /\ mint_builder \in MintBuilders
    /\ burn_builder \in BurnBuilders
    /\ seq = [a \in Addresses |-> 0]
    /\ built = None
    /\ call \in BuildSpecCalls
    /\ ret = NotReturned
    /\ BootstrapIdle

\* The record of a build call: its arguments, the transaction returned, and
\* whether the previous build had the same builder, work item and account.
BuildRecord(builder, data, account, txn) ==
    Some([builder |-> builder, data |-> data, account |-> account, txn |-> txn,
          repeat |-> /\ built.some
                     /\ built.val.builder = builder
                     /\ built.val.data = data
                     /\ built.val.account = account])

\* LocalAccount::increment_sequence_number, called by both signing methods
\* on the account that signs as sender.
increment_sequence_number(account) == [seq EXCEPT ![account] = @ + 1]

\* A call of NftMintSignedTransactionBuilder::build.
MintBuildCall ==
    \E data \in MintTargets, account \in Addresses :
        /\ seq[account] < MaxSeq
        /\ built' = BuildRecord("mint", data, account,
                        MintBuild(mint_builder, data, account, seq[account]))
        /\ seq' = increment_sequence_number(account)
        /\ UNCHANGED <<mint_builder, burn_builder, call, ret>>
        /\ UNCHANGED bootstrap_vars

\* A call of the burn builder's build that also advances the admin
\* co-signer's sequence number.
BurnBuildCall_AdminAdvances ==
    \E data \in BurnTargets, account \in Addresses :
        /\ seq[account] < MaxSeq
        /\ built' = BuildRecord("burn", data, account,
                        BurnBuild(burn_builder, data, account, seq[account]))
        /\ seq' = [a \in Addresses |->
                      IF a \in {account, burn_builder.admin_account}
                      THEN seq[a] + 1 ELSE seq[a]]
        /\ UNCHANGED <<mint_builder, burn_builder, call, ret>>
        /\ UNCHANGED bootstrap_vars

\* A call of NftBurnSignedTransactionBuilder::build.
BurnBuildCall ==
    \E data \in BurnTargets, account \in Addresses :
        /\ seq[account] < MaxSeq
        /\ built' = BuildRecord("burn", data, account,
                        BurnBuild(burn_builder, data, account, seq[account]))
        /\ seq' = increment_sequence_number(account)
        /\ UNCHANGED <<mint_builder, burn_builder, call, ret>>
        /\ UNCHANGED bootstrap_vars

NextBuild ==
    MintBuildCall \/ BurnBuildCall \/ MintSuccessOutputCall \/ BurnSuccessOutputCall

SpecBuild == InitBuild /\ [][NextBuild]_vars

\* ------------------------------------------------ create_test_collection
\* format!("{}::CreateCollectionConfig", contract_module)
CreateCollectionConfigTag(contract_module) ==
    ToStandardString(contract_module.address)
        \o <<"::", contract_module.name, "::CreateCollectionConfig">>

\* rand_string(10)
RandStrings == {"aaaaaaaaaa", "zzzzzzzzzz"}

\* The arguments of the create_collection call.
CreateCollectionArgs(collection_name) ==
    <<BcsValue("string", collection_name),
      BcsValue("string", "collection description"),
      BcsValue("string", "htpps://some.collection.uri.test"),
      BcsValue("string", "test token #"),
      BcsValue("string", "test token description"),
      BcsValue("vector<string>", <<"htpps://some.uri1.test", "htpps://some.uri2.test">>),
      BcsValue("vector<u64>", <<10, 1>>),
      BcsBool(TRUE),
      BcsBool(TRUE),
      BcsBool(TRUE),
      BcsBool(FALSE),
      BcsValue("option<u64>", <<1000000>>),
      BcsValue("option<u64>", <<>>),
      BcsValue("option<u64>", <<>>)>>

\* Events the ledger can attach to a bootstrap transaction: the module's
\* CreateCollectionConfig with (collection_config, collection, ready_to_mint),
\* one whose data does not decode, and an unrelated event.
BootstrapEvents ==
    LET tag == CreateCollectionConfigTag(get_module_id(bs_args.contract_address,
                                                       bs_args.contract_module_name))
    IN  {[type |-> tag, data |-> <<cfg, coll, FALSE>>] : cfg \in Addresses, coll \in Addresses}
        \cup {[type |-> tag, data |-> <<>>], [type |-> OtherTag, data |-> <<>>]}

\* What client.submit_and_wait_bcs(txn).await yields: an error, or the
\* finalized transaction with its status and events.
Responses(txn) ==
    {[ok |-> FALSE]} \cup
    {[ok |-> TRUE, val |-> [success |-> s, events |-> ev, transaction |-> txn]] :
        s \in BOOLEAN, ev \in SeqsUpTo(BootstrapEvents, MaxEvents)}

Ok(v) == Some([kind |-> "Ok", value |-> v])
Err(e) == Some([kind |-> "Err", error |-> e])
Panic == Some([kind |-> "Panic"])
ErrTransport == <<"submit_and_wait_bcs failed">>

\* No builder is in use while the collection is bootstrapped.
InitBootstrap ==
    /\ mint_builder = NftMintSignedTransactionBuilder(ContractAddress, ModuleName,
                                                      MintEntryFun, ContractAddress)
    /\ burn_builder = NftBurnSignedTransactionBuilder(ContractAddress, ModuleName,
                                                      BurnEntryFun, ContractAddress)
    /\ seq = [a \in Addresses |-> 0]
    /\ built = None
    /\ call = NoCall
    /\ ret = NotReturned
    /\ pc = "start"
    /\ \E admin \in Addresses :
           bs_args = [contract_address |-> ContractAddress,
                      contract_module_name |-> ModuleName,
                      admin_account |-> admin]
    /\ admin_seq = 0
    /\ submitted = <<>>
    /\ outputs = <<>>
    /\ collection_owner_address = None
    /\ result = None

\* The collection field taken instead of collection_config.
CollectionOwnerAddress_CollectionField(create_collection_event) == create_collection_event[2]

\* let collection_owner_address = create_collection_event.collection_config;
\* the decoded event is (collection_config, collection, ready_to_mint).
CollectionOwnerAddress(create_collection_event) == create_collection_event[1]

\* create_test_collection up to the first await: sign and submit create_collection.
SubmitCreate ==
    /\ pc = "start"
    /\ \E r \in RandStrings :
        LET contract_module == get_module_id(bs_args.contract_address, bs_args.contract_module_name)
            collection_name == <<"Test Collection ", r>>
            create_collection_txn ==
                sign_with_transaction_builder(bs_args.admin_account, admin_seq,
                    EntryFunction(contract_module, "create_collection", <<>>,
                                  CreateCollectionArgs(collection_name)))
        IN  submitted' = Append(submitted, create_collection_txn)
    /\ admin_seq' = admin_seq + 1
    /\ pc' = "create_submitted"
    /\ UNCHANGED <<bs_args, outputs, collection_owner_address, result>>
    /\ UNCHANGED builder_vars

\* CreateFinalized without the assert on the status of create_collection.
CreateFinalized_NoStatusAssert ==
    /\ pc = "create_submitted"
    /\ \E resp \in Responses(submitted[1]) :
        LET contract_module == get_module_id(bs_args.contract_address, bs_args.contract_module_name)
            create_collection_event ==
                search_single_event_data(resp.val.events,
                                         CreateCollectionConfigTag(contract_module), 3)
            owner == CollectionOwnerAddress(create_collection_event.val)
            start_minting_txn ==
                sign_with_transaction_builder(bs_args.admin_account, admin_seq,
                    EntryFunction(contract_module, "set_minting_status", <<>>,
                                  <<BcsAddress(owner), BcsBool(TRUE)>>))
        IN  /\ outputs' = Append(outputs, resp)
            /\ IF ~resp.ok
               THEN /\ result' = Err(ErrTransport)
                    /\ pc' = "done"
                    /\ UNCHANGED <<submitted, admin_seq, collection_owner_address>>
               ELSE IF ~create_collection_event.ok
               THEN /\ result' = Err(create_collection_event.err)
                    /\ pc' = "done"
                    /\ UNCHANGED <<submitted, admin_seq, collection_owner_address>>
               ELSE /\ collection_owner_address' = Some(owner)
                    /\ submitted' = Append(submitted, start_minting_txn)
                    /\ admin_seq' = admin_seq + 1
                    /\ pc' = "activate_submitted"
                    /\ UNCHANGED result
    /\ UNCHANGED bs_args
    /\ UNCHANGED builder_vars

\* From the first await to the second: check the status, find the event,
\* sign and submit set_minting_status.
CreateFinalized ==
    /\ pc = "create_submitted"
    /\ \E resp \in Responses(submitted[1]) :
        LET contract_module == get_module_id(bs_args.contract_address, bs_args.contract_module_name)
            create_collection_event ==
                search_single_event_data(resp.val.events,
                                         CreateCollectionConfigTag(contract_module), 3)
            owner == CollectionOwnerAddress(create_collection_event.val)
            start_minting_txn ==
                sign_with_transaction_builder(bs_args.admin_account, admin_seq,
                    EntryFunction(contract_module, "set_minting_status", <<>>,
                                  <<BcsAddress(owner), BcsBool(TRUE)>>))
        IN  /\ outputs' = Append(outputs, resp)
            /\ IF ~resp.ok
               THEN /\ result' = Err(ErrTransport)
                    /\ pc' = "done"
                    /\ UNCHANGED <<submitted, admin_seq, collection_owner_address>>
               ELSE IF ~resp.val.success
               THEN /\ result' = Panic
                    /\ pc' = "done"
                    /\ UNCHANGED <<submitted, admin_seq, collection_owner_address>>
               ELSE IF ~create_collection_event.ok
               THEN /\ result' = Err(create_collection_event.err)
                    /\ pc' = "done"
                    /\ UNCHANGED <<submitted, admin_seq, collection_owner_address>>
               ELSE /\ collection_owner_address' = Some(owner)
                    /\ submitted' = Append(submitted, start_minting_txn)
                    /\ admin_seq' = admin_seq + 1
                    /\ pc' = "activate_submitted"
                    /\ UNCHANGED result
    /\ UNCHANGED bs_args
    /\ UNCHANGED builder_vars

\* From the second await to the return.
ActivateFinalized ==
    /\ pc = "activate_submitted"
    /\ \E resp \in Responses(submitted[2]) :
        /\ outputs' = Append(outputs, resp)
        /\ result' = IF ~resp.ok THEN Err(ErrTransport)
                     ELSE IF ~resp.val.success THEN Panic
                     ELSE Ok(collection_owner_address.val)
    /\ pc' = "done"
    /\ UNCHANGED <<bs_args, admin_seq, submitted, collection_owner_address>>
    /\ UNCHANGED builder_vars

NextBootstrap == SubmitCreate \/ CreateFinalized \/ ActivateFinalized

SpecBootstrap == InitBootstrap /\ [][NextBootstrap]_vars

\* ------------------------------------------- reading a result line back
\* The fields of a line: the text between its tabs.
RECURSIVE Split(_)
Split(s) ==
    IF \A i \in 1..Len(s) : s[i] # TAB
    THEN <<s>>
    ELSE LET i == CHOOSE k \in 1..Len(s) : s[k] = TAB /\ \A j \in 1..(k - 1) : s[j] # TAB
         IN  <<SubSeq(s, 1, i - 1)>> \o Split(SubSeq(s, i + 1, Len(s)))

Called == call.builder # "none" /\ ret.returned
RetFields == Split(ret.value.line)
\* What the event search of the call's builder yields on the call's outcome.
Extracted ==
    IF call.builder = "mint"
    THEN get_mint_token_addr(call.txn_out.val.events)
    ELSE get_burn_token_addr(call.txn_out.val.events)
\* The two address fields that come from the work item and the builder.
ItemFields ==
    IF call.builder = "mint"
    THEN <<ToStandardString(mint_builder.collection_owner_address), Display(call.data[1])>>
    ELSE <<ToStandardString(call.data[1]), ToStandardString(call.data[2])>>

\* C1: for both builders success_output returns a line of exactly four
\* tab-separated fields for every work item and every outcome, and never
\* panics instead of returning a line.
C1_AlwaysFourFields ==
    Called => (~ret.value.panic /\ Len(RetFields) = 4)

\* C4: when the outcome is absent, the status field is exactly "missing", the
\* event-derived first field is empty and the two work-item-derived fields
\* are populated.
C4_AbsentIsMissing ==
    (Called /\ ~call.txn_out.some) =>
        /\ ~ret.value.panic
        /\ Len(RetFields) = 4
        /\ RetFields[4] = <<"missing">>
        /\ RetFields[1] = <<>>
        /\ RetFields[2] # <<>> /\ RetFields[3] # <<>>
        /\ <<RetFields[2], RetFields[3]>> = ItemFields

C4_Witness ==
    Called /\ ~call.txn_out.some /\ call.builder = "burn" /\ ~ret.value.panic

\* A failed outcome without an item-minted event, given to the mint builder.
FailedMintOutcome ==
    /\ Called /\ call.builder = "mint" /\ call.txn_out.some
    /\ ~call.txn_out.val.success
    /\ \A i \in 1..Len(call.txn_out.val.events) : call.txn_out.val.events[i].type # MintTag

\* C5 as stated: the mint builder reports a failed outcome without an
\* item-minted event exactly as an absent one, <empty>\t<collection>\t<recipient>\tmissing.
C5_FailedIsMissing ==
    FailedMintOutcome =>
        /\ ~ret.value.panic
        /\ ret.value.line = Format4(<<>>, ItemFields[1], ItemFields[2], <<"missing">>)

\* C5 amended: the mint builder reports a failed outcome without an
\* item-minted event with an empty first field and the text of the extraction
\* error (event not found) as status, never "missing":
\* <empty>\t<collection>\t<recipient>\t<error text>.
C5_FailedIsExtractionError ==
    FailedMintOutcome =>
        /\ ~ret.value.panic
        /\ RetFields = <<<<>>, ItemFields[1], ItemFields[2], ErrNotFound>>
        /\ RetFields[4] # <<"missing">>

C5_Witness ==
    FailedMintOutcome /\ Len(call.txn_out.val.events) > 0

\* C6: when the outcome is present and the expected event is found, the
\* status is exactly "success" and all four fields are non-empty; the first
\* field is the minted item address of the event (mint) or the address of the
\* transaction's sender (burn), the other two are the work-item addresses.
C6_FoundIsSuccess ==
    (Called /\ call.txn_out.some /\ Extracted.ok) =>
        /\ ~ret.value.panic
        /\ Len(RetFields) = 4
        /\ RetFields[4] = <<"success">>
        /\ \A i \in 1..4 : RetFields[i] # <<>>
        /\ call.builder = "mint" => RetFields[1] = ToStandardString(Extracted.val)
        /\ call.builder = "burn" =>
               /\ call.txn_out.val.transaction.kind = "UserTransaction"
               /\ RetFields[1] = ToStandardString(call.txn_out.val.transaction.sender)
        /\ <<RetFields[2], RetFields[3]>> = ItemFields

\* The line the same builder returns for the same work item when the event
\* is found in a user transaction.
SuccessLine ==
    IF call.builder = "mint"
    THEN MintSuccessOutput(mint_builder, call.data,
             Some([success |-> TRUE, events |-> <<[type |-> MintTag, data |-> <<1>>]>>,
                   transaction |-> MintBuild(mint_builder, call.data, 1, 0)])).line
    ELSE BurnSuccessOutput(burn_builder, call.data,
             Some([success |-> TRUE, events |-> <<[type |-> BurnTag, data |-> <<1>>]>>,
                   transaction |-> BurnBuild(burn_builder, call.data, 1, 0)])).line

\* C7: when the outcome is present but the expected event cannot be
\* extracted, the status field is the text of the extraction error, the first
\* field is empty and the two work-item fields are as in the success case.
C7_ExtractionErrorIsStatus ==
    (Called /\ call.txn_out.some /\ ~Extracted.ok) =>
        /\ ~ret.value.panic
        /\ Len(RetFields) = 4
        /\ RetFields[4] = Extracted.err
        /\ RetFields[1] = <<>>
        /\ RetFields[2] # <<>> /\ RetFields[3] # <<>>
        /\ RetFields[2] = Split(SuccessLine)[2]
        /\ RetFields[3] = Split(SuccessLine)[3]

C7_Witness ==
    /\ Called /\ call.txn_out.some /\ ~Extracted.ok
    /\ call.builder = "burn"
    /\ Extracted.err = ErrAmbiguous
    /\ call.txn_out.val.transaction.kind # "UserTransaction"

\* --------------------------------------------------------- build: claims
\* C9: the transaction produced by build calls the builder's configured
\* module and function with exactly two arguments in fixed order: mint
\* (builder's collection address, recipient) signed by the per-call identity
\* alone; burn (work item's collection, work item's token) with the per-call
\* identity as sender and the configured admin as only secondary signer.
C9_BuildEncoding ==
    built.some =>
        LET b == built.val
            p == b.txn.payload
        IN  /\ Len(p.args) = 2
            /\ b.txn.sender = b.account
            /\ b.builder = "mint" =>
                   /\ p.module = mint_builder.contract_module
                   /\ p.function = mint_builder.mint_entry_fun
                   /\ p.args = <<BcsAddress(mint_builder.collection_owner_address),
                                 BcsAddress(b.data[1])>>
                   /\ b.txn.secondary_signer_addresses = <<>>
            /\ b.builder = "burn" =>
                   /\ p.module = burn_builder.contract_module
                   /\ p.function = burn_builder.burn_entry_fun
                   /\ p.args = <<BcsAddress(b.data[2]), BcsAddress(b.data[1])>>
                   /\ b.txn.secondary_signer_addresses = <<burn_builder.admin_account>>

C9_Witness ==
    /\ built.some
    /\ built.val.builder = "burn"
    /\ built.val.data[1] # built.val.data[2]
    /\ built.val.account # burn_builder.admin_account
    /\ built.val.txn.sequence_number > 0

SameBuildArgs ==
    /\ built.some /\ built'.some
    /\ built'.val.builder = built.val.builder
    /\ built'.val.data = built.val.data
    /\ built'.val.account = built.val.account

BootstrapTag ==
    CreateCollectionConfigTag(get_module_id(bs_args.contract_address,
                                            bs_args.contract_module_name))
\* The CreateCollectionConfig events of the finalized create_collection.
CreateEventsFound ==
    SelectSeq(outputs[1].val.events, LAMBDA e : e.type = BootstrapTag)
CreateSucceeded ==
    Len(outputs) >= 1 /\ outputs[1].ok /\ outputs[1].val.success
ActivationsSubmitted ==
    {i \in 1..Len(submitted) : submitted[i].payload.function = "set_minting_status"}
Finished == pc = "done" /\ result.some

\* C2: the activation (set_minting_status) transaction is never submitted
\* unless create_collection has finalized with success and exactly one
\* CreateCollectionConfig event was found and decoded; when creation succeeds
\* but the event is missing, bootstrap fails with no activation submitted.
C2_ActivationAfterEvent ==
    /\ ActivationsSubmitted # {} =>
           /\ ActivationsSubmitted = {2}
           /\ submitted[1].payload.function = "create_collection"
           /\ CreateSucceeded
           /\ Len(CreateEventsFound) = 1
           /\ Len(CreateEventsFound[1].data) = 3
    /\ (pc = "done" /\ CreateSucceeded /\ Len(CreateEventsFound) = 0) =>
           /\ Finished
           /\ result.val.kind = "Err"
           /\ ActivationsSubmitted = {}
           /\ Len(submitted) = 1

C2_Witness ==
    /\ pc = "done" /\ CreateSucceeded /\ Len(CreateEventsFound) = 0
    /\ Len(outputs[1].val.events) > 0
    /\ result.val.kind = "Err"

\* The address the activation call carries as its first argument.
ActivationTarget == submitted[2].payload.args[1]

\* C3 as stated: the address the activation targets and bootstrap returns is
\* the collection field of the decoded CreateCollectionConfig event.
C3_TargetsCollectionField ==
    Len(submitted) >= 2 =>
        /\ ActivationTarget = BcsAddress(CreateEventsFound[1].data[2])
        /\ (Finished /\ result.val.kind = "Ok") =>
               result.val.value = CreateEventsFound[1].data[2]

\* C3 amended: the address the activation targets and bootstrap returns is
\* the collection_config field of the decoded CreateCollectionConfig event
\* (not its collection field and not a caller-supplied value).
C3_TargetsCollectionConfigField ==
    Len(submitted) >= 2 =>
        /\ ActivationTarget = BcsAddress(CreateEventsFound[1].data[1])
        /\ collection_owner_address = Some(CreateEventsFound[1].data[1])
        /\ (Finished /\ result.val.kind = "Ok") =>
               result.val.value = CreateEventsFound[1].data[1]

C3_Witness ==
    /\ Len(submitted) >= 2
    /\ Finished /\ result.val.kind = "Ok"
    /\ CreateEventsFound[1].data[1] # CreateEventsFound[1].data[2]
    /\ CreateEventsFound[1].data[1] # bs_args.contract_address
    /\ CreateEventsFound[1].data[1] # bs_args.admin_account

\* The finalized transactions that ended with a status other than success.
Rejected == {i \in 1..Len(outputs) : outputs[i].ok /\ ~outputs[i].val.success}

\* C8: bootstrap returns a collection address only after both the create and
\* the activate transaction finalized with success; when either finalizes
\* with another status, bootstrap ends with a failure reported to its caller
\* as an error result and submits no further transaction.
C8_RejectedIsErrorResult ==
    /\ (Finished /\ result.val.kind = "Ok") =>
           /\ Len(outputs) = 2 /\ Len(submitted) = 2
           /\ \A i \in 1..2 : outputs[i].ok /\ outputs[i].val.success
    /\ Rejected # {} =>
           /\ Finished
           /\ result.val.kind = "Err"
           /\ \A i \in Rejected : Len(submitted) = i

====
